---- MODULE Spec2Model ----
(***************************************************************************)
(* Financial Instruments JSON Viewer                                       *)
(* (src/upstox_financial_instruments_viewer.py).                          *)
(*                                                                         *)
(* Three state machines share this module:                                 *)
(*   Spec       the viewer: one upload, then one rerun of main() for every *)
(*              widget the user touches (filters of lines 112-210);        *)
(*   SpecParse  load_json_file and the emptiness check of main();          *)
(*   SpecFmt    format_currency.                                           *)
(*                                                                         *)
(* Text is a sequence of Unicode code points, so that ordering, trimming,  *)
(* case folding and parsing are computed and not assumed.  Numbers are     *)
(* counted in hundredths (1.5 is 150): every number of the bounded inputs  *)
(* has at most two decimals, which binary floats compare and print         *)
(* exactly.                                                                *)
(***************************************************************************)
EXTENDS Integers, Sequences, FiniteSets, TLC

VARIABLES
    naAsText,   \* the pandas build: does astype(str) render NaN/None as text
    data,       \* the list load_json_file returned (<<>>: no file uploaded)
    view,       \* what the last run of main() offered, selected and kept
    content,    \* SpecParse: the uploaded file, a sequence of lines
    loaded,     \* SpecParse: outcome of load_json_file and of main's check
    fmtIn,      \* SpecFmt: the value handed to format_currency
    fmtOut      \* SpecFmt: the text it returned

vars == <<naAsText, data, view, content, loaded, fmtIn, fmtOut>>

(***************************************************************************)
(* Bounds                                                                  *)
(***************************************************************************)
MaxRecords == 2     \* records per uploaded dataset
MaxLines == 3       \* lines per uploaded file (SpecParse)
MaxAmount == 60     \* format_currency is tried on -MaxAmount..MaxAmount hundredths

(***************************************************************************)
(* Text                                                                    *)
(***************************************************************************)
Range(s) == {s[i] : i \in DOMAIN s}

IsSpace(c) == c \in {9, 10, 13, 32}

RECURSIVE LStrip(_)
LStrip(s) == IF s # <<>> /\ IsSpace(Head(s)) THEN LStrip(Tail(s)) ELSE s

RECURSIVE RStrip(_)
RStrip(s) ==
    IF s # <<>> /\ IsSpace(s[Len(s)]) THEN RStrip(SubSeq(s, 1, Len(s) - 1)) ELSE s

\* str.strip()
Strip(s) == RStrip(LStrip(s))

\* Python orders str by code point, lexicographically.
RECURSIVE StrLess(_, _)
StrLess(a, b) ==
    IF a = <<>> THEN b # <<>>
    ELSE IF b = <<>> THEN FALSE
    ELSE IF a[1] < b[1] THEN TRUE
    ELSE IF a[1] > b[1] THEN FALSE
    ELSE StrLess(Tail(a), Tail(b))

\* sorted(values.unique().tolist())
RECURSIVE SortedSeq(_)
SortedSeq(S) ==
    IF S = {} THEN <<>>
    ELSE LET m == CHOOSE x \in S : \A y \in S \ {x} : StrLess(x, y)
         IN  <<m>> \o SortedSeq(S \ {m})

\* case=False: ASCII case folding
Lower(c) == IF c >= 65 /\ c <= 90 THEN c + 32 ELSE c

\* One pattern character against one text character.  str.contains takes the
\* term as a regular expression (regex=True is the default): of the
\* metacharacters only "." (46) is in the bounded alphabet of search terms.
CharMatches(p, c) == p = 46 \/ Lower(p) = Lower(c)

\* re.search(term, text, re.IGNORECASE) for the bounded alphabet
Contains(text, term) ==
    \E off \in 0..(Len(text) - Len(term)) :
        \A j \in 1..Len(term) : CharMatches(term[j], text[off + j])

IsDigit(c) == c >= 48 /\ c <= 57

RECURSIVE DigitsValue(_)
DigitsValue(s) ==
    IF s = <<>> THEN 0 ELSE 10 * DigitsValue(SubSeq(s, 1, Len(s) - 1)) + (s[Len(s)] - 48)

AllDigits(s) == \A i \in DOMAIN s : IsDigit(s[i])

\* The literal without its sign
Unsigned(s) == IF s # <<>> /\ s[1] = 45 THEN Tail(s) ELSE s

\* Where the first "." stands, or one past the end
DotPos(b) ==
    IF \E i \in DOMAIN b : b[i] = 46
    THEN CHOOSE i \in DOMAIN b : b[i] = 46 /\ \A j \in 1..(i - 1) : b[j] # 46
    ELSE Len(b) + 1

\* The digits after the "." as hundredths
Hundredths(frac) ==
    IF Len(frac) = 0 THEN 0
    ELSE IF Len(frac) = 1 THEN 10 * DigitsValue(frac)
    ELSE DigitsValue(frac)

DecimalOf(neg, whole, frac) ==
    IF /\ Len(whole) + Len(frac) >= 1
       /\ AllDigits(whole)
       /\ AllDigits(frac)
       /\ Len(frac) <= 2
    THEN [ok |-> TRUE, neg |-> neg, mag |-> 100 * DigitsValue(whole) + Hundredths(frac)]
    ELSE [ok |-> FALSE, neg |-> FALSE, mag |-> 0]

SplitDecimal(neg, b, p) == DecimalOf(neg, SubSeq(b, 1, p - 1), SubSeq(b, p + 1, Len(b)))

\* A decimal literal [-]digits[.digits] read as a sign and a count of
\* hundredths.  Literals of the bounded inputs carry at most two decimals.
ParseDecimal(s) == SplitDecimal(s # <<>> /\ s[1] = 45, Unsigned(s), DotPos(Unsigned(s)))

(***************************************************************************)
(* JSON values of a record's field                                         *)
(***************************************************************************)
NaN == [t |-> "nan", s |-> <<>>, n |-> 0]          \* key missing: DataFrame fills NaN
None == [t |-> "none", s |-> <<>>, n |-> 0]        \* JSON null
S(s) == [t |-> "str", s |-> s, n |-> 0]
N(n) == [t |-> "num", s |-> <<>>, n |-> n]         \* n hundredths
B(b) == [t |-> "bool", s |-> <<>>, n |-> IF b THEN 1 ELSE 0]

Fields == {"exchange", "instrument_type", "segment", "underlying_type",
           "lot_size", "strike_price", "weekly", "trading_symbol"}

\* pd.isna / dropna / notna
isna(v) == v.t \in {"nan", "none"}

\* Series.astype(str) on one cell.  Text and missing cells only: the bounded
\* inputs put nothing else in the categorical and symbol fields.  Builds
\* before pandas 3 turn a missing cell into the text "nan" / "None"; later
\* builds keep it missing.
astype_str(v) ==
    CASE v.t = "str" -> v
      [] v.t = "nan" -> IF naAsText THEN S(<<110, 97, 110>>) ELSE v
      [] v.t = "none" -> IF naAsText THEN S(<<78, 111, 110, 101>>) ELSE v

Signed(p) == [ok |-> p.ok, n |-> IF p.neg THEN 0 - p.mag ELSE p.mag]

\* pd.to_numeric(cell, errors='coerce'): a number, or NaN (ok = FALSE)
to_numeric(v) ==
    CASE v.t = "num" -> [ok |-> TRUE, n |-> v.n]
      [] v.t = "str" -> Signed(ParseDecimal(v.s))
      [] isna(v) -> [ok |-> FALSE, n |-> 0]

\* 'col' in df.columns: some record of the upload has the key.  Row
\* selection never changes the columns.
Columns(d) == {c \in Fields : \E i \in DOMAIN d : d[i][c].t # "nan"}

SetMin(X) == CHOOSE x \in X : \A y \in X : x <= y
SetMax(X) == CHOOSE x \in X : \A y \in X : x >= y

(***************************************************************************)
(* main(): the sidebar filters, lines 112-210.  A DataFrame is the upload  *)
(* d and the set of row indices still selected; boolean masking keeps the  *)
(* rows' order.                                                            *)
(***************************************************************************)
All == <<65, 108, 108>>                            \* 'All'

\* df[col].dropna().astype(str), then the cells whose strip() is not ''
CatValues(d, rows, col) ==
    {astype_str(d[i][col]).s : i \in {j \in rows : /\ ~isna(d[j][col])
                                                    /\ Strip(astype_str(d[j][col]).s) # <<>>}}

\* Fault model for CatFilter: the cell is compared as it is, not trimmed.
CatFilterUntrimmed(d, rows, col, selected) ==
    {i \in rows : LET c == astype_str(d[i][col]) IN c.t = "str" /\ c.s = selected}

\* df[df[col].astype(str).str.strip() == selected]
CatFilter(d, rows, col, selected) ==
    {i \in rows : LET c == astype_str(d[i][col]) IN c.t = "str" /\ Strip(c.s) = selected}

\* st.sidebar.selectbox: the session's value while it is among the options,
\* else the first option
selectbox(options, want) ==
    IF want \in Range(options) THEN want ELSE options[1]

\* One categorical filter (lines 116-124, 127-135, 138-146, 149-157)
CatStage(d, rows, col, want) ==
    LET values  == CatValues(d, rows, col)
        offered == col \in Columns(d) /\ values # {}
        options == IF offered THEN <<All>> \o SortedSeq(values) ELSE <<>>
        sel     == IF offered THEN selectbox(options, want) ELSE All
    IN  [in |-> rows, offered |-> offered, options |-> options, sel |-> sel,
         out |-> IF offered /\ sel # All THEN CatFilter(d, rows, col, sel) ELSE rows]

\* pd.to_numeric(df[col], errors='coerce').dropna(), as a set: its unique()
NumValues(d, rows, col) ==
    {to_numeric(d[i][col]).n : i \in {j \in rows : to_numeric(d[j][col]).ok}}

\* int(x) of a float: truncation toward zero, in whole units
int(n) == IF n >= 0 THEN n \div 100 ELSE 0 - ((0 - n) \div 100)

\* st.sidebar.slider(..., value=(lo, hi)): the session's pair while it lies
\* in the offered range, else the full range.  <<1, 0>> stands for a slider
\* that was never shown.
slider(lo, hi, want) ==
    IF want[1] >= lo /\ want[2] <= hi /\ want[1] <= want[2] THEN want ELSE <<lo, hi>>

\* (numeric >= range[0]) & (numeric <= range[1]) & numeric.notna();
\* the bounds lo, hi are in hundredths
RangeFilter(d, rows, col, lo, hi) ==
    {i \in rows : LET v == to_numeric(d[i][col]) IN v.ok /\ v.n >= lo /\ v.n <= hi}

\* Lot size filter (lines 160-175): an integer slider
LotStage(d, rows, want) ==
    LET values  == NumValues(d, rows, "lot_size")
        many    == "lot_size" \in Columns(d) /\ Cardinality(values) > 1
        min_lot == IF many THEN int(SetMin(values)) ELSE 0
        max_lot == IF many THEN int(SetMax(values)) ELSE 0
        offered == many /\ min_lot # max_lot
        sel     == IF offered THEN slider(min_lot, max_lot, want) ELSE <<1, 0>>
    IN  [in |-> rows, offered |-> offered, lo |-> min_lot, hi |-> max_lot, sel |-> sel,
         out |-> IF offered
                 THEN RangeFilter(d, rows, "lot_size", 100 * sel[1], 100 * sel[2])
                 ELSE rows]

\* Strike price filter (lines 178-193): a float slider, bounds in hundredths
StrikeStage(d, rows, want) ==
    LET values     == NumValues(d, rows, "strike_price")
        many       == "strike_price" \in Columns(d) /\ Cardinality(values) > 1
        min_strike == IF many THEN SetMin(values) ELSE 0
        max_strike == IF many THEN SetMax(values) ELSE 0
        offered    == many /\ min_strike # max_strike
        sel        == IF offered THEN slider(min_strike, max_strike, want) ELSE <<1, 0>>
    IN  [in |-> rows, offered |-> offered, lo |-> min_strike, hi |-> max_strike,
         sel |-> sel,
         out |-> IF offered THEN RangeFilter(d, rows, "strike_price", sel[1], sel[2])
                 ELSE rows]

\* cell == True / cell == False: Python compares 1 == True and 0 == False
\* as equal, whatever the column's dtype
EqualsBool(v, b) ==
    \/ v.t = "bool" /\ v.n = (IF b THEN 1 ELSE 0)
    \/ v.t = "num" /\ v.n = (IF b THEN 100 ELSE 0)

WeeklyChoices == {"All", "Weekly Only", "Monthly Only"}

\* Weekly filter (lines 196-204)
WeeklyStage(d, rows, want) ==
    LET offered == "weekly" \in Columns(d) /\ \E i \in rows : ~isna(d[i].weekly)
        sel     == IF offered THEN want ELSE "All"
    IN  [in |-> rows, offered |-> offered, sel |-> sel,
         out |-> IF offered /\ sel = "Weekly Only"
                     THEN {i \in rows : EqualsBool(d[i].weekly, TRUE)}
                 ELSE IF offered /\ sel = "Monthly Only"
                     THEN {i \in rows : EqualsBool(d[i].weekly, FALSE)}
                 ELSE rows]

\* Search filter (lines 207-210)
SearchStage(d, rows, term) ==
    [in |-> rows, sel |-> term,
     out |-> IF term # <<>> /\ "trading_symbol" \in Columns(d)
             THEN {i \in rows : LET c == astype_str(d[i].trading_symbol)
                                IN  c.t = "str" /\ Contains(c.s, term)}
             ELSE rows]

\* The widgets' values before anything is touched
Defaults ==
    [exchange |-> All, instrument_type |-> All, segment |-> All,
     underlying_type |-> All, lot_size |-> <<1, 0>>, strike_price |-> <<1, 0>>,
     weekly |-> "All", search |-> <<>>]

\* The controls of the sidebar, in the order main() builds them
Controls ==
    <<"exchange", "instrument_type", "segment", "underlying_type",
      "lot_size", "strike_price", "weekly", "search">>

\* One filter of main() over the rows the filters above it kept
Stage(c, d, rows, w) ==
    CASE c \in {"exchange", "instrument_type", "segment", "underlying_type"} ->
            CatStage(d, rows, c, w[c])
      [] c = "lot_size" -> LotStage(d, rows, w.lot_size)
      [] c = "strike_price" -> StrikeStage(d, rows, w.strike_price)
      [] c = "weekly" -> WeeklyStage(d, rows, w.weekly)
      [] c = "search" -> SearchStage(d, rows, w.search)

\* Fault model for Stages: every filter reads the whole upload, df is not
\* rebound.
RECURSIVE StagesOnOriginal(_, _, _)
StagesOnOriginal(d, w, k) ==
    IF k = 0 THEN <<>>
    ELSE Append(StagesOnOriginal(d, w, k - 1), Stage(Controls[k], d, DOMAIN d, w))

\* The first k filters: df is rebound by every filter, so each control reads
\* the rows the controls above it kept.
RECURSIVE Stages(_, _, _)
Stages(d, w, k) ==
    IF k = 0 THEN <<>>
    ELSE LET prev == Stages(d, w, k - 1)
         IN  Append(prev, Stage(Controls[k], d,
                                IF k = 1 THEN DOMAIN d ELSE prev[k - 1].out, w))

\* One run of main() over the upload d with the session's widget values w:
\* what every control offered, selected and kept.  The rows shown are those
\* the last filter kept.
Main(d, w) ==
    LET s == Stages(d, w, Len(Controls))
    IN  [c \in Range(Controls) |-> s[CHOOSE k \in DOMAIN Controls : Controls[k] = c]]

Result(v) == v.search.out

\* The session's widget values after a run
Session(v) == [c \in Range(Controls) |-> v[c].sel]

(***************************************************************************)
(* The uploads tried.  Each family varies the fields one group of filters  *)
(* reads and leaves the other keys out of the records.                     *)
(***************************************************************************)
Rec(ex, it, sg, ut, lot, sp, wk, ts) ==
    [exchange |-> ex, instrument_type |-> it, segment |-> sg, underlying_type |-> ut,
     lot_size |-> lot, strike_price |-> sp, weekly |-> wk, trading_symbol |-> ts]

\* exchange: missing, null, "A", " A", " ";  instrument_type: "F", "O"
CatRecords ==
    {Rec(e, i, NaN, NaN, NaN, NaN, NaN, NaN) :
        e \in {NaN, None, S(<<65>>), S(<<32, 65>>), S(<<32>>)},
        i \in {S(<<70>>), S(<<79>>)}}

\* segment: "A", "B ", null;  underlying_type: "F", "O"
SegRecords ==
    {Rec(NaN, NaN, g, u, NaN, NaN, NaN, NaN) :
        g \in {S(<<65>>), S(<<66, 32>>), None},
        u \in {S(<<70>>), S(<<79>>)}}

\* exchange: "A", "B";  lot_size: 1, 2.5, "x";  strike_price: 0.5, and one
\* record more whose strike_price is the text "1.5"
NumRecords ==
    {Rec(e, NaN, NaN, NaN, l, N(50), NaN, NaN) :
        e \in {S(<<65>>), S(<<66>>)},
        l \in {N(100), N(250), S(<<120>>)}}
    \cup {Rec(S(<<65>>), NaN, NaN, NaN, N(100), S(<<49, 46, 53>>), NaN, NaN)}

\* weekly: true, false, 1, "y", missing
WeeklyRecords ==
    {Rec(NaN, NaN, NaN, NaN, NaN, NaN, w, NaN) :
        w \in {B(TRUE), B(FALSE), N(100), S(<<121>>), NaN}}

\* trading_symbol: "Ab", "c", null, missing
SymbolRecords ==
    {Rec(NaN, NaN, NaN, NaN, NaN, NaN, NaN, s) :
        s \in {S(<<65, 98>>), S(<<99>>), None, NaN}}

Families == {CatRecords, SegRecords, NumRecords, WeeklyRecords, SymbolRecords}

\* What load_json_file returns for a JSON array of 1..MaxRecords objects
\* (lines 23-25)
Datasets ==
    UNION {UNION {[1..n -> F] : n \in 1..MaxRecords} : F \in Families}

\* Search terms typed: "", "B", "n", "."
SearchTerms == {<<>>, <<66>>, <<110>>, <<46>>}

(***************************************************************************)
(* The viewer                                                              *)
(***************************************************************************)
NoView == Main(<<>>, Defaults)

\* A widget was touched: Streamlit reruns main() with the session's values.
Rerun(w) ==
    /\ view' = Main(data, w)
    /\ UNCHANGED <<naAsText, data, content, loaded, fmtIn, fmtOut>>

\* A file is uploaded; main() runs with every widget at its default.
Upload ==
    /\ data = <<>>
    /\ \E d \in Datasets :
        /\ data' = d
        /\ view' = Main(d, Defaults)
    /\ UNCHANGED <<naAsText, content, loaded, fmtIn, fmtOut>>

\* The file is removed: uploaded_file is None (line 296).
Remove ==
    /\ data # <<>>
    /\ data' = <<>>
    /\ view' = NoView
    /\ UNCHANGED <<naAsText, content, loaded, fmtIn, fmtOut>>

SelectExchange ==
    /\ data # <<>>
    /\ \E v \in Range(view.exchange.options) :
        Rerun([Session(view) EXCEPT !.exchange = v])

SelectInstrumentType ==
    /\ data # <<>>
    /\ \E v \in Range(view.instrument_type.options) :
        Rerun([Session(view) EXCEPT !.instrument_type = v])

SelectSegment ==
    /\ data # <<>>
    /\ \E v \in Range(view.segment.options) :
        Rerun([Session(view) EXCEPT !.segment = v])

SelectUnderlyingType ==
    /\ data # <<>>
    /\ \E v \in Range(view.underlying_type.options) :
        Rerun([Session(view) EXCEPT !.underlying_type = v])

\* The integer slider: any pair of whole numbers of the offered range
SetLotRange ==
    /\ data # <<>>
    /\ view.lot_size.offered
    /\ \E lo \in view.lot_size.lo..view.lot_size.hi :
        \E hi \in lo..view.lot_size.hi :
            Rerun([Session(view) EXCEPT !.lot_size = <<lo, hi>>])

\* The float slider: its ends are put on the range's ends or on a strike
\* price of the upload
StrikeStops ==
    {x \in NumValues(data, DOMAIN data, "strike_price") :
        x >= view.strike_price.lo /\ x <= view.strike_price.hi}

SetStrikeRange ==
    /\ data # <<>>
    /\ view.strike_price.offered
    /\ \E lo \in StrikeStops :
        \E hi \in {x \in StrikeStops : x >= lo} :
            Rerun([Session(view) EXCEPT !.strike_price = <<lo, hi>>])

SelectWeekly ==
    /\ data # <<>>
    /\ view.weekly.offered
    /\ \E c \in WeeklyChoices :
        Rerun([Session(view) EXCEPT !.weekly = c])

Search ==
    /\ data # <<>>
    /\ \E term \in SearchTerms :
        Rerun([Session(view) EXCEPT !.search = term])

Next ==
    \/ Upload
    \/ Remove
    \/ SelectExchange
    \/ SelectInstrumentType
    \/ SelectSegment
    \/ SelectUnderlyingType
    \/ SetLotRange
    \/ SetStrikeRange
    \/ SelectWeekly
    \/ Search

(***************************************************************************)
(* load_json_file, lines 15-41.  A file is a sequence of lines and a line  *)
(* a sequence of tokens: "o1" and "o2" are two JSON object literals, "5" a *)
(* JSON number, "[", "]" and "," the array punctuation, "sp" a blank, "x"  *)
(* text that is no JSON, "bad" a byte that is no UTF-8.  "nl" is the line  *)
(* feed between two lines.  A parsed value is an object, a number or an    *)
(* array of parsed values.                                                 *)
(***************************************************************************)
Blank == {"sp", "nl"}

Obj(id) == [k |-> "obj", id |-> id, items |-> <<>>]
Num(id) == [k |-> "num", id |-> id, items |-> <<>>]
Arr(items) == [k |-> "arr", id |-> "", items |-> items]

Fail == [ok |-> FALSE, val |-> Num(""), next |-> 0]

\* The JSON grammar over the tokens: the value that starts at t[i]
RECURSIVE ParseValue(_, _)
RECURSIVE ParseItems(_, _, _)
ParseValue(t, i) ==
    IF i > Len(t) THEN Fail
    ELSE IF t[i] \in {"o1", "o2"} THEN [ok |-> TRUE, val |-> Obj(t[i]), next |-> i + 1]
    ELSE IF t[i] = "5" THEN [ok |-> TRUE, val |-> Num(t[i]), next |-> i + 1]
    ELSE IF t[i] = "["
        THEN IF i + 1 <= Len(t) /\ t[i + 1] = "]"
             THEN [ok |-> TRUE, val |-> Arr(<<>>), next |-> i + 2]
             ELSE ParseItems(t, i + 1, <<>>)
    ELSE Fail

ParseItems(t, i, acc) ==
    LET v == ParseValue(t, i)
    IN  IF ~v.ok \/ v.next > Len(t) THEN Fail
        ELSE IF t[v.next] = "," THEN ParseItems(t, v.next + 1, Append(acc, v.val))
        ELSE IF t[v.next] = "]"
            THEN [ok |-> TRUE, val |-> Arr(Append(acc, v.val)), next |-> v.next + 1]
        ELSE Fail

NotBlank(tok) == tok \notin Blank

\* json.loads: one value, blanks allowed around every token, nothing after it
json_loads(toks) ==
    LET t == SelectSeq(toks, NotBlank)
        v == ParseValue(t, 1)
    IN  IF v.ok /\ v.next = Len(t) + 1 THEN [ok |-> TRUE, val |-> v.val]
        ELSE [ok |-> FALSE, val |-> Num("")]

\* The file's bytes: its lines with a line feed between two of them
RECURSIVE Join(_)
Join(file) ==
    IF Len(file) = 0 THEN <<>>
    ELSE IF Len(file) = 1 THEN file[1]
    ELSE file[1] \o <<"nl">> \o Join(Tail(file))

RECURSIVE LStripBlank(_)
LStripBlank(t) == IF t # <<>> /\ Head(t) \in Blank THEN LStripBlank(Tail(t)) ELSE t

RECURSIVE RStripBlank(_)
RStripBlank(t) ==
    IF t # <<>> /\ t[Len(t)] \in Blank THEN RStripBlank(SubSeq(t, 1, Len(t) - 1)) ELSE t

\* str.strip() on tokens
StripBlank(t) == RStripBlank(LStripBlank(t))

\* str.split('\n')
RECURSIVE Split(_)
Split(t) ==
    LET nls == {i \in DOMAIN t : t[i] = "nl"}
    IN  IF nls = {} THEN <<t>>
        ELSE LET p == CHOOSE i \in nls : \A j \in nls : i <= j
             IN  <<SubSeq(t, 1, p - 1)>> \o Split(SubSeq(t, p + 1, Len(t)))

\* Fault model for ParseLines: the loop ends at the first line that fails.
RECURSIVE ParseLinesBreak(_)
ParseLinesBreak(lines) ==
    IF lines = <<>> THEN <<>>
    ELSE IF StripBlank(Head(lines)) = <<>> THEN ParseLinesBreak(Tail(lines))
    ELSE LET v == json_loads(Head(lines))
         IN  IF v.ok THEN <<v.val>> \o ParseLinesBreak(Tail(lines)) ELSE <<>>

\* Lines 31-38: every line that is not blank is parsed on its own; a line
\* that fails is passed over
RECURSIVE ParseLines(_)
ParseLines(lines) ==
    IF lines = <<>> THEN <<>>
    ELSE IF StripBlank(Head(lines)) = <<>> THEN ParseLines(Tail(lines))
    ELSE LET v == json_loads(Head(lines))
         IN  IF v.ok THEN <<v.val>> \o ParseLines(Tail(lines))
             ELSE ParseLines(Tail(lines))

\* Fault model for load_json_file: no outer except, the decoding error
\* escapes.
load_json_file_unguarded(file) ==
    LET toks == Join(file)
        all  == json_loads(toks)
    IN  IF "bad" \in Range(toks)
        THEN [data |-> <<>>, error |-> FALSE, raised |-> TRUE]
        ELSE IF all.ok
        THEN [data |-> IF all.val.k = "arr" THEN all.val.items ELSE <<all.val>>,
              error |-> FALSE, raised |-> FALSE]
        ELSE [data |-> ParseLines(Split(StripBlank(toks))),
              error |-> FALSE, raised |-> FALSE]

\* load_json_file.  json.loads(bytes) decodes before it parses: a byte that
\* is no UTF-8 raises UnicodeDecodeError, which is no JSONDecodeError and
\* lands in the outer except (st.error, return []).
load_json_file(file) ==
    LET toks == Join(file)
        all  == json_loads(toks)
    IN  IF "bad" \in Range(toks)
        THEN [data |-> <<>>, error |-> TRUE, raised |-> FALSE]
        ELSE IF all.ok
        THEN [data |-> IF all.val.k = "arr" THEN all.val.items ELSE <<all.val>>,
              error |-> FALSE, raised |-> FALSE]
        ELSE [data |-> ParseLines(Split(StripBlank(toks))),
              error |-> FALSE, raised |-> FALSE]

\* main(), lines 83-90: the load and the check for an empty result
MainLoad(file) ==
    LET got == load_json_file(file)
    IN  [called |-> TRUE, data |-> got.data, raised |-> got.raised,
         errors |-> (IF got.error THEN {"Error loading file"} ELSE {})
                    \cup (IF ~got.raised /\ got.data = <<>>
                          THEN {"No valid JSON data found in the file"} ELSE {})]

NotLoaded == [called |-> FALSE, data |-> <<>>, raised |-> FALSE, errors |-> {}]

FileLines ==
    {<<>>, <<"sp">>, <<"o1">>, <<"o2">>, <<"sp", "o1", "sp">>, <<"x">>, <<"5">>,
     <<"[">>, <<"]">>, <<"[", "o1", ",">>, <<"o2", "]">>, <<"o1", "o2">>, <<"bad">>}

\* The empty file is the file of one empty line.
Files == UNION {[1..n -> FileLines] : n \in 1..MaxLines}

UploadFile ==
    /\ content = <<>>
    /\ \E f \in Files :
        /\ content' = f
        /\ loaded' = MainLoad(f)
    /\ UNCHANGED <<naAsText, data, view, fmtIn, fmtOut>>

RemoveFile ==
    /\ content # <<>>
    /\ content' = <<>>
    /\ loaded' = NotLoaded
    /\ UNCHANGED <<naAsText, data, view, fmtIn, fmtOut>>

NextParse ==
    \/ UploadFile
    \/ RemoveFile

(***************************************************************************)
(* format_currency, lines 59-69                                            *)
(***************************************************************************)
RECURSIVE Digits(_)
Digits(n) == IF n < 10 THEN <<48 + n>> ELSE Digits(n \div 10) \o <<48 + (n % 10)>>

\* The "," of the format spec: a comma before every group of three digits
RECURSIVE Grouped(_)
Grouped(ds) ==
    IF Len(ds) <= 3 THEN ds
    ELSE Grouped(SubSeq(ds, 1, Len(ds) - 3)) \o <<44>> \o SubSeq(ds, Len(ds) - 2, Len(ds))

\* f"{value:,.2f}" of a float of mag hundredths
Fixed2(neg, mag) ==
    (IF neg THEN <<45>> ELSE <<>>)
        \o Grouped(Digits(mag \div 100))
        \o <<46, 48 + ((mag % 100) \div 10), 48 + (mag % 10)>>

\* float(str): blanks around the literal are dropped
float(s) == ParseDecimal(Strip(s))

Rupee == <<8377>>
ZeroText == Rupee \o <<48, 46, 48, 48>>            \* "₹0.00"
NotApplicable == <<78, 47, 65>>                    \* "N/A"

\* Fault model for format_currency: a missing, empty or zero value gives
\* "N/A".
format_currency_na(value) ==
    IF isna(value) \/ value = S(<<>>) \/ value = N(0) \/ value = B(FALSE)
    THEN NotApplicable
    ELSE IF value.t = "str"
    THEN LET f == float(value.s)
         IN  IF f.ok THEN Rupee \o Fixed2(f.neg, f.mag) ELSE NotApplicable
    ELSE IF value.t = "bool" THEN Rupee \o Fixed2(FALSE, 100 * value.n)
    ELSE Rupee \o Fixed2(value.n < 0, IF value.n < 0 THEN 0 - value.n ELSE value.n)

format_currency(value) ==
    IF isna(value) \/ value = S(<<>>) \/ value = N(0) \/ value = B(FALSE)
    THEN ZeroText
    ELSE IF value.t = "str"
    THEN LET f == float(value.s)
         IN  IF f.ok THEN Rupee \o Fixed2(f.neg, f.mag) ELSE NotApplicable
    ELSE IF value.t = "bool" THEN Rupee \o Fixed2(FALSE, 100 * value.n)
    ELSE Rupee \o Fixed2(value.n < 0, IF value.n < 0 THEN 0 - value.n ELSE value.n)

\* "", " ", "x", "5", " 7 ", "0", "-0", "1234.5", "1.2.3"
FmtTexts ==
    {<<>>, <<32>>, <<120>>, <<53>>, <<32, 55, 32>>, <<48>>, <<45, 48>>,
     <<49, 50, 51, 52, 46, 53>>, <<49, 46, 50, 46, 51>>}

FmtInputs ==
    {NaN, None, B(TRUE), B(FALSE)}
        \cup {S(s) : s \in FmtTexts}
        \cup {N(k) : k \in (0 - MaxAmount)..MaxAmount}
        \cup {N(99999), N(123450), N(100000000), N(0 - 123456789)}

Format ==
    /\ \E v \in FmtInputs :
        /\ fmtIn' = v
        /\ fmtOut' = format_currency(v)
    /\ UNCHANGED <<naAsText, data, view, content, loaded>>

NextFmt == Format

(***************************************************************************)
(* Specifications                                                          *)
(***************************************************************************)
Init ==
    /\ naAsText \in BOOLEAN
    /\ data = <<>>
    /\ view = NoView
    /\ content = <<>>
    /\ loaded = NotLoaded
    /\ fmtIn = NaN
    /\ fmtOut = <<>>

Spec == Init /\ [][Next]_vars
SpecParse == Init /\ [][NextParse]_vars
SpecFmt == Init /\ [][NextFmt]_vars

(***************************************************************************)
(* Properties.  They restate what a control must offer and keep from the   *)
(* records themselves, without the operators of main() above.              *)
(***************************************************************************)
CategoricalControls == {"exchange", "instrument_type", "segment", "underlying_type"}

Uploaded == data # <<>>

\* s without the blanks at its two ends
TrimOf(s) ==
    LET inked == {i \in DOMAIN s : s[i] \notin {9, 10, 13, 32}}
    IN  IF inked = {} THEN <<>>
        ELSE SubSeq(s, CHOOSE i \in inked : \A j \in inked : i <= j,
                       CHOOSE i \in inked : \A j \in inked : i >= j)

\* a before b in code point order
LexLess(a, b) ==
    \E k \in 1..(Len(a) + 1) :
        /\ \A j \in 1..(k - 1) : j <= Len(b) /\ a[j] = b[j]
        /\ \/ k = Len(a) + 1 /\ Len(b) >= k
           \/ k <= Len(a) /\ k <= Len(b) /\ a[k] < b[k]

\* The texts of field c, among rows, that are not blank once trimmed
TextsOf(c, rows) ==
    {data[i][c].s : i \in {j \in rows : data[j][c].t = "str" /\ TrimOf(data[j][c].s) # <<>>}}

\* The rows among rows whose field c is a text that trims to v
RowsEqual(c, rows, v) ==
    {i \in rows : data[i][c].t = "str" /\ TrimOf(data[i][c].s) = v}

\* The numbers of field c among rows
NumbersOf(c, rows) ==
    {to_numeric(data[i][c]).n : i \in {j \in rows : to_numeric(data[j][c]).ok}}

CatChoicesAre(c, rows) ==
    LET st == view[c]
    IN  /\ st.offered => TextsOf(c, rows) # {}
        /\ st.offered =>
            /\ Head(st.options) = All
            /\ Range(Tail(st.options)) = TextsOf(c, rows)
            /\ \A i, j \in DOMAIN Tail(st.options) :
                   i < j => LexLess(Tail(st.options)[i], Tail(st.options)[j])

Passes(i, c) ==
    CASE c \in CategoricalControls ->
            \/ ~view[c].offered
            \/ view[c].sel = All
            \/ i \in RowsEqual(c, {i}, view[c].sel)
      [] c = "lot_size" ->
            \/ ~view[c].offered
            \/ /\ to_numeric(data[i][c]).ok
               /\ to_numeric(data[i][c]).n >= 100 * view[c].sel[1]
               /\ to_numeric(data[i][c]).n <= 100 * view[c].sel[2]
      [] c = "strike_price" ->
            \/ ~view[c].offered
            \/ /\ to_numeric(data[i][c]).ok
               /\ to_numeric(data[i][c]).n >= view[c].sel[1]
               /\ to_numeric(data[i][c]).n <= view[c].sel[2]
      [] c = "weekly" ->
            \/ ~view[c].offered
            \/ view[c].sel = "All"
            \/ view[c].sel = "Weekly Only" /\ data[i][c] \in {B(TRUE), N(100)}
            \/ view[c].sel = "Monthly Only" /\ data[i][c] \in {B(FALSE), N(0)}

\* The rows of the upload that pass every control above the k-th
RowsAbove(k) == {i \in DOMAIN data : \A j \in 1..(k - 1) : Passes(i, Controls[j])}

\* n hundredths without its fraction, toward zero
WholeUnits(m) == CHOOSE q \in 0..10 : 100 * q <= m /\ m < 100 * (q + 1)
WholePart(n) == IF n >= 0 THEN WholeUnits(n) ELSE 0 - WholeUnits(0 - n)

RangeIs(c, rows, whole) ==
    LET nums == NumbersOf(c, rows)
        lo   == CHOOSE x \in nums : \A y \in nums : x <= y
        hi   == CHOOSE x \in nums : \A y \in nums : x >= y
    IN  view[c].offered =>
            /\ Cardinality(nums) >= 2
            /\ view[c].lo = (IF whole THEN WholePart(lo) ELSE lo)
            /\ view[c].hi = (IF whole THEN WholePart(hi) ELSE hi)

FilteringMonotone ==
    Uploaded =>
        /\ Result(view) \subseteq DOMAIN data
        /\ \A c \in Range(Controls) :
               Result(view) \subseteq
                   Result(Main(data, [Session(view) EXCEPT ![c] = Defaults[c]]))

\* C3 (as claimed): a range control left at the full range it offers keeps
\* every row whose value is a number, so every row when all are numbers.
FullRangeKeepsNumbers ==
    Uploaded =>
        \A c \in {"lot_size", "strike_price"} :
            (view[c].offered /\ view[c].sel = <<view[c].lo, view[c].hi>>) =>
                \A i \in view[c].in : to_numeric(data[i][c]).ok => i \in view[c].out

\* text holds term as a substring, letter case aside
HasSubstring(text, term) ==
    \E off \in 0..(Len(text) - Len(term)) :
        \A j \in 1..Len(term) : Lower(term[j]) = Lower(text[off + j])

\* C4 (as claimed): a search term that is not empty keeps exactly the rows
\* whose trading_symbol is a text holding the term as a substring, letter
\* case aside, so no row without a trading_symbol; the empty term keeps all.
SearchKeepsSubstring ==
    Uploaded =>
        /\ view.search.sel = <<>> => view.search.out = view.search.in
        /\ view.search.sel # <<>> =>
               view.search.out =
                   {i \in view.search.in :
                       /\ data[i].trading_symbol.t = "str"
                       /\ HasSubstring(data[i].trading_symbol.s, view.search.sel)}

\* C5 (as claimed): the weekly control is offered only if some row holds a
\* boolean; true-only and false-only keep exactly the rows holding that
\* boolean; no restriction keeps all.
WeeklyKeepsBooleans ==
    Uploaded =>
        /\ view.weekly.offered => \E i \in view.weekly.in : data[i].weekly.t = "bool"
        /\ (view.weekly.offered /\ view.weekly.sel = "Weekly Only") =>
               view.weekly.out = {i \in view.weekly.in : data[i].weekly = B(TRUE)}
        /\ (view.weekly.offered /\ view.weekly.sel = "Monthly Only") =>
               view.weekly.out = {i \in view.weekly.in : data[i].weekly = B(FALSE)}
        /\ view.weekly.sel = "All" => view.weekly.out = view.weekly.in

\* C10 (as claimed): a value offered by a categorical control, selected with
\* nothing else constraining, shows at least one row.
OfferedChoiceShowsRows ==
    Uploaded =>
        \A c \in CategoricalControls :
            \A k \in DOMAIN view[c].options :
                view[c].options[k] # All =>
                    Result(Main(data, [Defaults EXCEPT ![c] = view[c].options[k]])) # {}

(***************************************************************************)
(* Properties of load_json_file                                            *)
(***************************************************************************)
Undecodable == \E i \in DOMAIN content : "bad" \in Range(content[i])

\* The whole file is one JSON document
OneDocument == json_loads(Join(content)).ok

\* The lines that parse as JSON on their own, and those holding one object
ValidLines == {i \in DOMAIN content : json_loads(content[i]).ok}
ObjectLines == {i \in ValidLines : json_loads(content[i]).val.k = "obj"}

\* The values of the lines of I, in the order of the lines
ValuesOf(I) ==
    [n \in 1..Cardinality(I) |->
        json_loads(content[CHOOSE i \in I : Cardinality({j \in I : j <= i}) = n]).val]

\* Every line is blank, holds one valid JSON object, or is no JSON at all
ObjectsAndInvalidLines ==
    \A i \in DOMAIN content :
        StripBlank(content[i]) = <<>> \/ i \in ObjectLines \/ i \notin ValidLines

\* C7 (as claimed): of a file that decodes, made of lines holding a valid
\* JSON object, lines that are no JSON, and blank lines, the records returned
\* are exactly the object lines, in the order of the lines, and no error is
\* surfaced for the other lines.
ReturnsObjectLines ==
    (loaded.called /\ ~Undecodable /\ ObjectsAndInvalidLines) =>
        /\ loaded.data = ValuesOf(ObjectLines)
        /\ "Error loading file" \notin loaded.errors

\* C7 (amended): when the file decodes and is not one JSON document as a
\* whole, the records returned are exactly the values of the lines that
\* parse as JSON on their own (objects, and arrays and numbers as well), in
\* the order of the lines, and no error is surfaced for the other lines; a
\* file that is one JSON document is returned as that document, the elements
\* of an array or the single value.
ReturnsValidLines ==
    (loaded.called /\ ~Undecodable) =>
        /\ ~OneDocument => loaded.data = ValuesOf(ValidLines)
        /\ OneDocument =>
               loaded.data = (IF json_loads(Join(content)).val.k = "arr"
                              THEN json_loads(Join(content)).val.items
                              ELSE <<json_loads(Join(content)).val>>)
        /\ ~loaded.raised
        /\ "Error loading file" \notin loaded.errors

\* C7 witness: a line that fails stands between two lines that parse, and
\* the two values are returned in order.
ValidLinesWitness ==
    /\ loaded.called
    /\ ~Undecodable
    /\ ~OneDocument
    /\ \E i, j, k \in DOMAIN content :
        /\ i < j /\ j < k
        /\ i \in ValidLines /\ k \in ValidLines
        /\ j \notin ValidLines /\ StripBlank(content[j]) # <<>>
    /\ Len(loaded.data) = 2

\* Nothing of the file can be read: a byte that is no UTF-8, or no JSON
\* document and no line that parses (the empty file is such a file)
TotalFailure == Undecodable \/ (~OneDocument /\ ValidLines = {})

\* C9: load_json_file never raises, and on a total failure it returns no
\* record and the user is shown a diagnostic.
NeverRaises ==
    loaded.called =>
        /\ ~loaded.raised
        /\ TotalFailure => (loaded.data = <<>> /\ loaded.errors # {})

\* C9 witness: a file with an undecodable byte beside a valid line came back
\* empty, with the diagnostics shown.
NeverRaisesWitness ==
    /\ loaded.called
    /\ Undecodable
    /\ ValidLines # {}
    /\ loaded.data = <<>>
    /\ "Error loading file" \in loaded.errors
    /\ ~loaded.raised

(***************************************************************************)
(* Properties of format_currency                                           *)
(***************************************************************************)
Formatted == fmtOut # <<>>

\* Absent, empty or zero
Missing(v) == v.t \in {"nan", "none"} \/ (v.t = "str" /\ v.s = <<>>)
                \/ (v.t \in {"num", "bool"} /\ v.n = 0)

\* A text that is no number
NonNumeric(v) == v.t = "str" /\ v.s # <<>> /\ ~float(v.s).ok

\* The magnitude of v in hundredths, and whether it carries a minus sign
MagnitudeOf(v) ==
    CASE v.t = "num" -> IF v.n < 0 THEN 0 - v.n ELSE v.n
      [] v.t = "bool" -> 100 * v.n
      [] v.t = "str" -> float(v.s).mag
Negative(v) == (v.t = "num" /\ v.n < 0) \/ (v.t = "str" /\ float(v.s).neg)

NoCommas(s) == SelectSeq(s, IsDigit)

\* out is the currency symbol, a minus sign if neg, the whole part in groups
\* of three digits parted by commas, a point and exactly two decimals, and
\* reads as mag hundredths.
IsRendering(out, neg, mag) ==
    LET body  == IF neg THEN SubSeq(out, 3, Len(out)) ELSE Tail(out)
        whole == SubSeq(body, 1, Len(body) - 3)
    IN  /\ Len(out) >= (IF neg THEN 6 ELSE 5)
        /\ out[1] = 8377
        /\ neg => out[2] = 45
        /\ body[Len(body) - 2] = 46
        /\ IsDigit(body[Len(body) - 1]) /\ IsDigit(body[Len(body)])
        /\ \A i \in DOMAIN whole :
               IF (Len(whole) - i + 1) % 4 = 0 THEN whole[i] = 44 ELSE IsDigit(whole[i])
        /\ whole[1] # 44
        /\ (whole[1] = 48) => Len(whole) = 1
        /\ 100 * DigitsValue(NoCommas(whole))
               + 10 * (body[Len(body) - 1] - 48) + (body[Len(body)] - 48) = mag

====
